---- MODULE Spec2Model ----
(***************************************************************************)
(* Model of huffman.cpp: static Huffman compressor / decompressor.         *)
(*                                                                         *)
(* A Node is the tuple <<ch, freq, left, right>>; the null pointer is the  *)
(* empty tuple.  An unordered_map is a function; its iteration order is    *)
(* unspecified and is drawn afresh wherever the code iterates.  The        *)
(* priority_queue orders nodes by Compare only, so which of several nodes  *)
(* of equal frequency top() returns is unspecified and is drawn from the   *)
(* nodes no other node precedes.  A file is a sequence of bytes 0..255.    *)
(***************************************************************************)
EXTENDS Integers, Sequences, FiniteSets

-----------------------------------------------------------------------------
(* Bounds *)

\* number of distinct byte values the input text may use ('a', 'b', ...)
NumSyms == 3
\* longest input text of the file pipeline
MaxLen == 6
\* number of distinct byte values of a frequency table given to the tree builder
MaxTableSyms == 4
\* largest count of a frequency table given to the tree builder
MaxFreq == 3
\* longest bit string given to writeEncodedData
MaxBits == 9

Symbols == 97..(96 + NumSyms)
TableSymbols == 97..(96 + MaxTableSyms)

-----------------------------------------------------------------------------
(* Generic helpers *)

Range(s) == {s[i] : i \in DOMAIN s}

SeqsUpTo(S, n) == UNION {[1..k -> S] : k \in 0..n}

Perms(S) == {p \in [1..Cardinality(S) -> S] : Range(p) = S}

EmptyMap == <<>>

\* map[k] = v on an unordered_map
Put(map, k, v) == [x \in (DOMAIN map) \cup {k} |-> IF x = k THEN v ELSE map[x]]

RECURSIVE SumOver(_, _)
SumOver(map, keys) ==
    IF keys = {} THEN 0
    ELSE LET k == CHOOSE x \in keys : TRUE
         IN  map[k] + SumOver(map, keys \ {k})

IsPrefix(s, t) == Len(s) <= Len(t) /\ SubSeq(t, 1, Len(s)) = s

-----------------------------------------------------------------------------
(* struct Node and Compare *)

Null == <<>>

Node(c, f, l, r) == <<c, f, l, r>>

Leaf(c, f) == Node(c, f, Null, Null)

Ch(n) == n[1]
Freq(n) == n[2]
Left(n) == n[3]
Right(n) == n[4]

IsLeaf(n) == Left(n) = Null /\ Right(n) = Null

\* the reversed comparison: a max-heap
CompareMax(left, right) == Freq(left) < Freq(right)

Compare(left, right) == Freq(left) > Freq(right)

-----------------------------------------------------------------------------
(* buildFrequencyMap *)

\* counts every byte but the first
buildFrequencyMapSkipFirst(text) ==
    [c \in Range(text) |-> Cardinality({i \in DOMAIN text : i > 1 /\ text[i] = c})]

buildFrequencyMap(text) ==
    [c \in Range(text) |-> Cardinality({i \in DOMAIN text : text[i] = c})]

-----------------------------------------------------------------------------
(* buildHuffmanTree *)

MaxInt == 2147483647

\* left->freq + right->freq on int; a sum out of range is undefined and is
\* modelled as the wrapped sum that the two's complement addition leaves
AddInt(a, b) ==
    IF a > 0 /\ b > 0 /\ a > MaxInt - b THEN ((a - MaxInt) + (b - MaxInt)) - 2
    ELSE IF a < 0 /\ b < 0 /\ a < (-MaxInt - 1) - b THEN ((a + MaxInt) + (b + MaxInt)) + 2
    ELSE a + b

\* the nodes top() may return: those that no other node of the heap precedes
Top(minHeap) == {n \in minHeap : \A m \in minHeap : ~Compare(n, m)}

\* the roots the while loop may end with, over every choice top() may make
RECURSIVE MergeAll(_)
MergeAll(minHeap) ==
    IF Cardinality(minHeap) <= 1 THEN minHeap
    ELSE UNION { UNION { MergeAll(((minHeap \ {left}) \ {right})
                                  \cup {Node(0, AddInt(Freq(left), Freq(right)), left, right)})
                         : right \in Top(minHeap \ {left}) }
                 : left \in Top(minHeap) }

LeafNodes(freqMap) == {Leaf(c, freqMap[c]) : c \in DOMAIN freqMap}

\* The set of roots buildHuffmanTree may return.  The empty set stands for
\* top() on an empty priority_queue, which is undefined.
buildHuffmanTree(freqMap) == MergeAll(LeafNodes(freqMap))

-----------------------------------------------------------------------------
(* generateCodes, encodeText *)

\* both recursive calls append "0"
RECURSIVE generateCodesSameBit(_, _, _)
generateCodesSameBit(root, str, huffmanCode) ==
    IF root = Null THEN huffmanCode
    ELSE LET here == IF IsLeaf(root) THEN Put(huffmanCode, Ch(root), str)
                     ELSE huffmanCode
             l == generateCodesSameBit(Left(root), str \o <<0>>, here)
         IN  generateCodesSameBit(Right(root), str \o <<0>>, l)

RECURSIVE generateCodes(_, _, _)
generateCodes(root, str, huffmanCode) ==
    IF root = Null THEN huffmanCode
    ELSE LET here == IF IsLeaf(root) THEN Put(huffmanCode, Ch(root), str)
                     ELSE huffmanCode
             l == generateCodes(Left(root), str \o <<0>>, here)
         IN  generateCodes(Right(root), str \o <<1>>, l)

RECURSIVE encodeText(_, _)
encodeText(text, huffmanCode) ==
    IF text = <<>> THEN <<>>
    ELSE huffmanCode[Head(text)] \o encodeText(Tail(text), huffmanCode)

-----------------------------------------------------------------------------
(* Fixed-width integers and the byte stream *)

\* the w bytes of the object representation of v that reinterpret_cast writes:
\* least significant first, two's complement (\div and % round down)
RECURSIVE ToBytes(_, _)
ToBytes(v, w) == IF w = 0 THEN <<>> ELSE <<v % 256>> \o ToBytes(v \div 256, w - 1)

RECURSIVE FromBytes(_)
FromBytes(bytes) ==
    IF bytes = <<>> THEN 0 ELSE Head(bytes) + 256 * FromBytes(Tail(bytes))

\* the int that the four bytes of a uint32_t convert to
IntFromBytes(bytes) ==
    bytes[1] + 256 * bytes[2] + 65536 * bytes[3]
    + 16777216 * (IF bytes[4] >= 128 THEN bytes[4] - 256 ELSE bytes[4])

\* The byte values the model draws for bytes that a failed read left unwritten
\* (an object that was never initialised holds an indeterminate value); every
\* unwritten byte of one object takes the same drawn value.
IndetBytes == {0, 97}

\* istream::read of w bytes into an uninitialised object: the bytes the object
\* may hold afterwards, the rest of the stream, and whether the read ran past
\* the end of the input.
Read(inFile, w) ==
    IF Len(inFile) >= w
    THEN {[bytes |-> SubSeq(inFile, 1, w),
           rest |-> SubSeq(inFile, w + 1, Len(inFile)),
           pastEnd |-> FALSE]}
    ELSE {[bytes |-> inFile \o [i \in 1..(w - Len(inFile)) |-> b],
           rest |-> <<>>,
           pastEnd |-> TRUE] : b \in IndetBytes}

-----------------------------------------------------------------------------
(* writeFrequencyMap, readFrequencyMap *)

RECURSIVE writeEntries(_, _)
writeEntries(freqMap, order) ==
    IF order = <<>> THEN <<>>
    ELSE ToBytes(Head(order), 1) \o ToBytes(freqMap[Head(order)], 4)
         \o writeEntries(freqMap, Tail(order))

\* order: the order in which the range-for visits the entries of freqMap
writeFrequencyMap(freqMap, order) ==
    ToBytes(Cardinality(DOMAIN freqMap) % 65536, 2) \o writeEntries(freqMap, order)

\* one iteration of the for loop of readFrequencyMap, from every state in S
readEntry(S) ==
    UNION { UNION { { [freqMap |-> Put(s.freqMap, c.bytes[1], IntFromBytes(f.bytes)),
                       rest |-> f.rest,
                       pastEnd |-> s.pastEnd \/ c.pastEnd \/ f.pastEnd,
                       garbage |-> s.garbage \cup
                                   (IF c.pastEnd \/ f.pastEnd THEN {c.bytes[1]} ELSE {})]
                      : f \in Read(c.rest, 4) }
                    : c \in Read(s.rest, 1) }
            : s \in S }

\* mapSize iterations; once an iteration changes nothing, no later one does
RECURSIVE readEntries(_, _)
readEntries(S, mapSize) ==
    IF mapSize = 0 THEN S
    ELSE LET T == readEntry(S)
         IN  IF T = S THEN S ELSE readEntries(T, mapSize - 1)

\* The outcomes of readFrequencyMap: the table, the rest of the stream, whether
\* a read ran past the end of the input, and the keys that were inserted by an
\* iteration whose reads did.
readFrequencyMap(inFile) ==
    UNION { readEntries({[freqMap |-> EmptyMap, rest |-> n.rest,
                          pastEnd |-> n.pastEnd, garbage |-> {}]}, FromBytes(n.bytes))
            : n \in Read(inFile, 2) }

-----------------------------------------------------------------------------
(* writeEncodedData, readEncodedData *)

\* bitset<8>(byteString).to_ulong(): the first character is the highest bit
BitsToByte(bits) ==
    bits[1] * 128 + bits[2] * 64 + bits[3] * 32 + bits[4] * 16
    + bits[5] * 8 + bits[6] * 4 + bits[7] * 2 + bits[8]

\* bitset<8>(byte).to_string()
ByteToBits(byte) ==
    << (byte \div 128) % 2, (byte \div 64) % 2, (byte \div 32) % 2, (byte \div 16) % 2,
       (byte \div 8) % 2, (byte \div 4) % 2, (byte \div 2) % 2, byte % 2 >>

RECURSIVE PackBytes(_)
PackBytes(bits) ==
    IF bits = <<>> THEN <<>>
    ELSE <<BitsToByte(SubSeq(bits, 1, 8))>> \o PackBytes(SubSeq(bits, 9, Len(bits)))

RECURSIVE UnpackBytes(_)
UnpackBytes(bytes) ==
    IF bytes = <<>> THEN <<>>
    ELSE ByteToBits(Head(bytes)) \o UnpackBytes(Tail(bytes))

\* without the reset of a padding of 8 to 0
writeEncodedDataNoReset(encodedText) ==
    LET padding == (8 - (Len(encodedText) % 8)) % 256
        paddedEncodedText == encodedText \o [i \in 1..padding |-> 0]
    IN  <<padding>> \o PackBytes(paddedEncodedText)

writeEncodedData(encodedText) ==
    LET raw == (8 - (Len(encodedText) % 8)) % 256
        padding == IF raw = 8 THEN 0 ELSE raw
        paddedEncodedText == encodedText \o [i \in 1..padding |-> 0]
    IN  <<padding>> \o PackBytes(paddedEncodedText)

\* The outcomes of readEncodedData: the padding, the bit string, whether the
\* read of the padding ran past the end of the input, and whether erase was
\* given an iterator before the beginning of the string (undefined).
readEncodedData(inFile) ==
    { LET bits == UnpackBytes(p.rest)
      IN  IF p.bytes[1] > 0 /\ bits # <<>>
          THEN IF p.bytes[1] > Len(bits)
               THEN [padding |-> p.bytes[1], encodedText |-> bits,
                     pastEnd |-> p.pastEnd, undefined |-> TRUE]
               ELSE [padding |-> p.bytes[1],
                     encodedText |-> SubSeq(bits, 1, Len(bits) - p.bytes[1]),
                     pastEnd |-> p.pastEnd, undefined |-> FALSE]
          ELSE [padding |-> p.bytes[1], encodedText |-> bits,
                pastEnd |-> p.pastEnd, undefined |-> FALSE]
      : p \in Read(inFile, 1) }

-----------------------------------------------------------------------------
(* the decoding loop of decompress *)

\* undefined: the loop dereferenced a null pointer
RECURSIVE decodeLoop(_, _, _, _, _)
decodeLoop(encodedText, i, current, root, out) ==
    IF i > Len(encodedText) THEN [output |-> out, undefined |-> FALSE]
    ELSE IF current = Null THEN [output |-> out, undefined |-> TRUE]
    ELSE LET next == IF encodedText[i] = 0 THEN Left(current) ELSE Right(current)
         IN  IF next = Null THEN [output |-> out, undefined |-> TRUE]
             ELSE IF IsLeaf(next)
                  THEN decodeLoop(encodedText, i + 1, root, root, out \o <<Ch(next)>>)
                  ELSE decodeLoop(encodedText, i + 1, next, root, out)

-----------------------------------------------------------------------------
(* State *)

VARIABLES
    pc,            \* how far the run has come
    text,          \* compress: the bytes of the input file
    freqMap,       \* compress: freqMap
    root,          \* compress: root
    huffmanCode,   \* compress: huffmanCode
    encodedText,   \* compress: encodedText
    container,     \* the bytes of the compressed file
    removed,       \* number of bytes cut from the end of the compressed file
    dFreqMap,      \* decompress: freqMap
    dRoot,         \* decompress: root
    padding,       \* decompress: padding
    dEncodedText,  \* decompress: encodedText
    output,        \* the bytes of the decompressed file
    pastEnd,       \* a read of decompress ran past the end of the input
    garbage,       \* keys readFrequencyMap inserted from fields it did not read
    emptyTop       \* top() was called on an empty priority_queue

vars == <<pc, text, freqMap, root, huffmanCode, encodedText, container, removed,
          dFreqMap, dRoot, padding, dEncodedText, output, pastEnd, garbage, emptyTop>>

compressVars == <<freqMap, root, huffmanCode, encodedText>>

decompressVars == <<dFreqMap, dRoot, padding, dEncodedText, output, pastEnd, garbage>>

Blank ==
    /\ freqMap = EmptyMap /\ root = Null /\ huffmanCode = EmptyMap
    /\ encodedText = <<>> /\ container = <<>> /\ removed = 0
    /\ dFreqMap = EmptyMap /\ dRoot = Null /\ padding = 0 /\ dEncodedText = <<>>
    /\ output = <<>> /\ pastEnd = FALSE /\ garbage = {} /\ emptyTop = FALSE

-----------------------------------------------------------------------------
(* The file pipeline: compress, then decompress of the file compress wrote,  *)
(* possibly after the file lost bytes at its end.                            *)

Init ==
    /\ pc = "start"
    /\ text \in SeqsUpTo(Symbols, MaxLen)
    /\ Blank

\* what top() on the empty priority_queue may hand back when the read does not
\* fault: the model draws the null pointer
IndetRoots == {Null}

\* compress(), lines 168-211
Compress ==
    /\ pc = "start"
    /\ LET fm == buildFrequencyMap(text)
           roots == buildHuffmanTree(fm)
       IN  /\ freqMap' = fm
           /\ emptyTop' = (roots = {})
           /\ \/ /\ roots = {}
                 /\ pc' = "crashed"
                 /\ UNCHANGED <<root, huffmanCode, encodedText, container>>
              \/ \E r \in (IF roots = {} THEN IndetRoots ELSE roots) :
                 \E order \in Perms(DOMAIN fm) :
                   LET code == generateCodes(r, <<>>, EmptyMap)
                       enc == encodeText(text, code)
                   IN  /\ root' = r
                       /\ huffmanCode' = code
                       /\ encodedText' = enc
                       /\ container' = writeFrequencyMap(fm, order) \o writeEncodedData(enc)
                       /\ pc' = "compressed"
    /\ UNCHANGED <<text, removed>>
    /\ UNCHANGED decompressVars

\* the compressed file loses its last k bytes before it is decompressed
Truncate ==
    /\ pc = "compressed"
    /\ removed = 0
    /\ \E k \in 1..Len(container) :
         /\ container' = SubSeq(container, 1, Len(container) - k)
         /\ removed' = k
    /\ UNCHANGED <<pc, text, emptyTop>>
    /\ UNCHANGED compressVars
    /\ UNCHANGED decompressVars

\* decompress(), lines 214-261
Decompress ==
    /\ pc = "compressed"
    /\ \E fr \in readFrequencyMap(container) :
         LET roots == buildHuffmanTree(fr.freqMap)
         IN  /\ dFreqMap' = fr.freqMap
             /\ garbage' = fr.garbage
             /\ emptyTop' = (emptyTop \/ roots = {})
             /\ \/ /\ roots = {}
                   /\ pc' = "crashed"
                   /\ pastEnd' = fr.pastEnd
                   /\ UNCHANGED <<dRoot, padding, dEncodedText, output>>
                \/ \E r \in (IF roots = {} THEN IndetRoots ELSE roots) :
                   \E e \in readEncodedData(fr.rest) :
                     LET d == decodeLoop(e.encodedText, 1, r, r, <<>>)
                     IN  /\ dRoot' = r
                         /\ padding' = e.padding
                         /\ dEncodedText' = e.encodedText
                         /\ pastEnd' = (fr.pastEnd \/ e.pastEnd)
                         /\ output' = (IF e.undefined THEN <<>> ELSE d.output)
                         /\ pc' = (IF e.undefined \/ d.undefined THEN "crashed"
                                   ELSE "decompressed")
    /\ UNCHANGED <<text, container, removed>>
    /\ UNCHANGED compressVars

Next == Compress \/ Truncate \/ Decompress

Spec == Init /\ [][Next]_vars

-----------------------------------------------------------------------------
(* The tree builder and the code generator on every frequency table *)

FreqTables == UNION {[D -> 1..MaxFreq] : D \in (SUBSET TableSymbols) \ {{}}}

InitTree ==
    /\ pc = "table"
    /\ freqMap \in FreqTables
    /\ text = <<>> /\ root = Null /\ huffmanCode = EmptyMap
    /\ encodedText = <<>> /\ container = <<>> /\ removed = 0
    /\ dFreqMap = EmptyMap /\ dRoot = Null /\ padding = 0 /\ dEncodedText = <<>>
    /\ output = <<>> /\ pastEnd = FALSE /\ garbage = {} /\ emptyTop = FALSE

\* buildHuffmanTree(freqMap), line 183
TreeBuild ==
    /\ pc = "table"
    /\ root' \in buildHuffmanTree(freqMap)
    /\ pc' = "tree"
    /\ UNCHANGED <<text, freqMap, huffmanCode, encodedText, container, removed, emptyTop>>
    /\ UNCHANGED decompressVars

\* generateCodes(root, "", huffmanCode), lines 186-187
TreeCodes ==
    /\ pc = "tree"
    /\ huffmanCode' = generateCodes(root, <<>>, EmptyMap)
    /\ pc' = "codes"
    /\ UNCHANGED <<text, freqMap, root, encodedText, container, removed, emptyTop>>
    /\ UNCHANGED decompressVars

NextTree == TreeBuild \/ TreeCodes

SpecTree == InitTree /\ [][NextTree]_vars

-----------------------------------------------------------------------------
(* writeEncodedData and readEncodedData on every bit string *)

InitBits ==
    /\ pc = "bits"
    /\ encodedText \in SeqsUpTo({0, 1}, MaxBits)
    /\ text = <<>> /\ freqMap = EmptyMap /\ root = Null /\ huffmanCode = EmptyMap
    /\ container = <<>> /\ removed = 0
    /\ dFreqMap = EmptyMap /\ dRoot = Null /\ padding = 0 /\ dEncodedText = <<>>
    /\ output = <<>> /\ pastEnd = FALSE /\ garbage = {} /\ emptyTop = FALSE

\* writeEncodedData(outFile, encodedText), line 203
BitsWrite ==
    /\ pc = "bits"
    /\ container' = writeEncodedData(encodedText)
    /\ pc' = "written"
    /\ UNCHANGED <<text, removed, emptyTop>>
    /\ UNCHANGED compressVars
    /\ UNCHANGED decompressVars

\* readEncodedData(inFile, padding), lines 229-230
BitsRead ==
    /\ pc = "written"
    /\ \E e \in readEncodedData(container) :
         /\ padding' = e.padding
         /\ dEncodedText' = e.encodedText
         /\ pastEnd' = e.pastEnd
         /\ pc' = (IF e.undefined THEN "crashed" ELSE "read")
    /\ UNCHANGED <<text, container, removed, emptyTop, dFreqMap, dRoot, output, garbage>>
    /\ UNCHANGED compressVars

NextBits == BitsWrite \/ BitsRead

SpecBits == InitBits /\ [][NextBits]_vars

-----------------------------------------------------------------------------
(* buildFrequencyMap, writeFrequencyMap and readFrequencyMap on every text *)

InitFreq ==
    /\ pc = "text"
    /\ text \in SeqsUpTo(Symbols, MaxLen)
    /\ Blank

\* buildFrequencyMap(text), line 180
FreqBuild ==
    /\ pc = "text"
    /\ freqMap' = buildFrequencyMap(text)
    /\ pc' = "counted"
    /\ UNCHANGED <<text, root, huffmanCode, encodedText, container, removed, emptyTop>>
    /\ UNCHANGED decompressVars

\* writeFrequencyMap(outFile, freqMap), line 200
FreqWrite ==
    /\ pc = "counted"
    /\ \E order \in Perms(DOMAIN freqMap) :
         container' = writeFrequencyMap(freqMap, order)
    /\ pc' = "written"
    /\ UNCHANGED <<text, removed, emptyTop>>
    /\ UNCHANGED compressVars
    /\ UNCHANGED decompressVars

\* readFrequencyMap(inFile), line 223
FreqRead ==
    /\ pc = "written"
    /\ \E fr \in readFrequencyMap(container) :
         /\ dFreqMap' = fr.freqMap
         /\ pastEnd' = fr.pastEnd
         /\ garbage' = fr.garbage
    /\ pc' = "read"
    /\ UNCHANGED <<text, container, removed, emptyTop, dRoot, padding, dEncodedText, output>>
    /\ UNCHANGED compressVars

NextFreq == FreqBuild \/ FreqWrite \/ FreqRead

SpecFreq == InitFreq /\ [][NextFreq]_vars

-----------------------------------------------------------------------------
(* Properties of the file pipeline (Spec) *)

Compressed == pc \in {"compressed", "decompressed"}

\* C1: for every input, the empty one and those of one repeated byte included,
\* compress followed by decompress of the untouched file runs to completion and
\* writes exactly the bytes of the input.
C1_RoundTrip ==
    removed = 0 =>
        /\ pc # "crashed"
        /\ (pc = "decompressed" => output = text)

\* C2: when the input is n >= 1 copies of one byte, the frequency table has one
\* entry, the code of that byte has at least one bit, and the encoded bit string
\* has at least n bits.
C2_SingleSymbolCode ==
    (Compressed /\ text # <<>> /\ Cardinality(Range(text)) = 1) =>
        /\ Cardinality(DOMAIN freqMap) = 1
        /\ \A c \in DOMAIN huffmanCode : Len(huffmanCode[c]) >= 1
        /\ Len(encodedText) >= Len(text)

\* C3: on the empty input, neither compress nor decompress takes the top of an
\* empty priority queue or fails; compress writes a file of zero symbols and no
\* code bits, and decompress of it writes the empty output.
C3_EmptyInput ==
    text = <<>> =>
        /\ ~emptyTop
        /\ pc # "crashed"
        /\ (Compressed /\ removed = 0) =>
               (FromBytes(SubSeq(container, 1, 2)) = 0 /\ Len(container) = 3)
        /\ (pc = "decompressed" /\ removed = 0) => output = <<>>

\* C4: decompress of a file that compress wrote and that then lost its last byte
\* does not complete successfully; in particular it never completes with an
\* output as long as the input but different from it.
C4_FinalByteCutFails ==
    removed = 1 =>
        /\ pc # "decompressed"
        /\ ~(pc = "decompressed" /\ Len(output) = Len(text) /\ output # text)

\* C5: when a read of the symbol count, of an entry or of the padding byte runs
\* past the end of the input, decompress does not complete successfully, no
\* entry is inserted from a field that was not read, and no tree is built
\* (stated of the runs in which top() never met an empty priority queue).
C5_ReadPastEndFails ==
    (pastEnd /\ ~emptyTop) =>
        /\ pc # "decompressed"
        /\ garbage = {}
        /\ dRoot = Null

\* C10: the tree decompress rebuilds from the stored table is the tree compress
\* built, same shape and same symbol at every leaf.
C10_SameTree ==
    (pc = "decompressed" /\ removed = 0) => dRoot = root

-----------------------------------------------------------------------------
(* Properties of writeEncodedData and readEncodedData (SpecBits) *)

\* C6: for a bit string of length L, writeEncodedData writes the padding byte
\* (8 - (L mod 8)) mod 8, a value in 0..7, and then ceil(L / 8) packed bytes;
\* readEncodedData of those bytes returns the original L bits.
C6_PaddingRoundTrip ==
    LET L == Len(encodedText)
    IN  /\ pc # "crashed"
        /\ pc \in {"written", "read"} =>
               /\ container[1] = (8 - (L % 8)) % 8
               /\ container[1] \in 0..7
               /\ Len(container) = 1 + ((L + 7) \div 8)
        /\ pc = "read" =>
               /\ padding = container[1]
               /\ Len(dEncodedText) = L
               /\ dEncodedText = encodedText
               /\ ~pastEnd

\* a string of 9 bits with a 1 in the second byte went through both functions
C6_Witness ==
    /\ pc = "read"
    /\ Len(encodedText) = 9
    /\ encodedText[9] = 1
    /\ padding = 7
    /\ Len(container) = 3

-----------------------------------------------------------------------------
(* Properties of buildHuffmanTree and generateCodes (SpecTree) *)

\* C7: for a frequency table of at least 2 symbols, every symbol of the table
\* has exactly one code, every code has at least one bit, and no symbol's code
\* is a prefix of another symbol's code.
C7_PrefixFree ==
    (pc = "codes" /\ Cardinality(DOMAIN freqMap) >= 2) =>
        /\ DOMAIN huffmanCode = DOMAIN freqMap
        /\ \A c \in DOMAIN huffmanCode : Len(huffmanCode[c]) >= 1
        /\ \A c, d \in DOMAIN huffmanCode :
               c # d => ~IsPrefix(huffmanCode[c], huffmanCode[d])

\* a table of 4 symbols got codes of three different lengths
C7_Witness ==
    /\ pc = "codes"
    /\ Cardinality(DOMAIN freqMap) = 4
    /\ Cardinality({Len(huffmanCode[c]) : c \in DOMAIN huffmanCode}) = 3

\* C8: for a frequency table of at least 2 symbols and every choice the heap
\* makes among nodes of equal frequency, a symbol of strictly higher frequency
\* has a code that is not longer; for the table of "aaabbc" the lengths satisfy
\* len(a) <= len(b) <= len(c).
C8_FrequentIsShorter ==
    (pc = "codes" /\ Cardinality(DOMAIN freqMap) >= 2) =>
        /\ \A x, y \in DOMAIN freqMap :
               freqMap[x] > freqMap[y] => Len(huffmanCode[x]) <= Len(huffmanCode[y])
        /\ freqMap = buildFrequencyMap(<<97, 97, 97, 98, 98, 99>>) =>
               /\ Len(huffmanCode[97]) <= Len(huffmanCode[98])
               /\ Len(huffmanCode[98]) <= Len(huffmanCode[99])

\* the table of "aaabbc" got its codes, a's shorter than c's
C8_Witness ==
    /\ pc = "codes"
    /\ freqMap = buildFrequencyMap(<<97, 97, 97, 98, 98, 99>>)
    /\ Len(huffmanCode[97]) < Len(huffmanCode[99])

-----------------------------------------------------------------------------
(* Properties of the frequency table (SpecFreq) *)

\* C9: the table buildFrequencyMap builds has every count >= 1 and counts that
\* sum to the length of the input, and the table readFrequencyMap reads from
\* what writeFrequencyMap wrote has the same symbols with the same counts.
C9_FrequencyTable ==
    /\ pc # "text" =>
           /\ \A c \in DOMAIN freqMap : freqMap[c] >= 1
           /\ SumOver(freqMap, DOMAIN freqMap) = Len(text)
    /\ pc = "read" =>
           /\ DOMAIN dFreqMap = DOMAIN freqMap
           /\ \A c \in DOMAIN freqMap : dFreqMap[c] = freqMap[c]
           /\ ~pastEnd

\* a table of 3 symbols, one of them counted more than once, was written and read
C9_Witness ==
    /\ pc = "read"
    /\ Cardinality(DOMAIN dFreqMap) = 3
    /\ \E c \in DOMAIN dFreqMap : dFreqMap[c] >= 2

====
